---- MODULE Spec2Model ----
(***************************************************************************)
(* A model of bf4-archiver.py: the blocking single-request fetcher         *)
(* battlelogApiFetch, the report-list enumeration loop of main, the        *)
(* numpy.array_split partition, the per-batch asyncio fan-out of           *)
(* battlelogRetrieveReport with its retry loop, and the write to disk.     *)
(*                                                                         *)
(* The remote service is the environment: every HTTP response is chosen    *)
(* nondeterministically from the response sets below.  All fetch tasks of  *)
(* a batch run on ONE asyncio event loop (one thread): a task runs from    *)
(* one await to the next without interruption, and time.sleep() suspends   *)
(* the whole thread.                                                       *)
(***************************************************************************)
EXTENDS Integers, Sequences, FiniteSets, TLC

(***************************************************************************)
(* Program constants                                                       *)
(***************************************************************************)
BatchSize      == 20    \* math.ceil(len(report_list)/20)
EmptyThreshold == 5     \* noDataReturned >= 5
AttemptCap     == 6     \* attempt >= 6
NumOneShot     == 7     \* the seven battlelogApiFetch calls before the report list
RetrySleep     == 3     \* time.sleep(3) on an empty body
BlockSleep     == 600   \* time.sleep(600) on a non-200 status
OSErrorSleep   == 10    \* time.sleep(10) on ClientOSError

(***************************************************************************)
(* Bounds of the model                                                     *)
(***************************************************************************)
MaxSmall == 2    \* short report lists: up to MaxSmall stubs, pages of 0..MaxSmall
BigPage  == 24   \* a long first page (more than one batch)
MaxExtra == 1    \* stubs that later pages may add to a long first page
MaxRace  == 2    \* responses of a batch arrive out of order within a window of MaxRace tasks
FlakyRecord == 2 \* the record whose requests may be answered with anything; the others answer validly
OddFetch == 2    \* the one-shot fetch, after the first, that may be answered without the expected fields
Max504   == 2    \* consecutive 504 answers to one battlelogApiFetch call

\* One request more than the cap, so that a request past the cap happens.
MaxAttempt == AttemptCap + 1
\* Two full batches.
FullPage == 2 * BatchSize
MaxStubs == FullPage + MaxExtra + BigPage

(***************************************************************************)
(* JSON-like values                                                        *)
(***************************************************************************)
EmptyObj == [kind |-> "empty"]       \* {}
Null     == [kind |-> "null"]        \* the body text 'null' (decodes to None)
Garbage  == [kind |-> "garbage"]     \* a body that is not JSON
NoData   == [kind |-> "nodata"]      \* a JSON object without the expected field
DataNull == [kind |-> "datanull"]    \* the JSON object {"data": null}
Doc      == [kind |-> "doc"]         \* a JSON object with the expected fields
NoRet    == [kind |-> "none"]        \* a coroutine that has not returned

Stub(g)   == [gameReportId |-> g, createdAt |-> MaxStubs + 1 - g]
Page(s)   == [kind |-> "page", gameReports |-> s]
Report(g) == [kind |-> "report", id |-> g]

Last(s) == s[Len(s)]
Min(a, b) == IF a < b THEN a ELSE b

RECURSIVE Flatten(_)
Flatten(ss) == IF ss = <<>> THEN <<>> ELSE Head(ss) \o Flatten(Tail(ss))

\* Python truthiness of a decoded JSON value.
Truthy(v) == v.kind \notin {"empty", "null", "none"}

(***************************************************************************)
(* battlelogApiFetch (lines 26-46)                                         *)
(* A response is [status, text]; status 0 stands for requests.get raising. *)
(***************************************************************************)
ApiOutcome_GiveUp504(r) ==
    IF r.status \in {504, 403, 0} THEN "exit" ELSE "return"

ApiOutcome_Retry403(r) ==
    IF r.status = 504 \/ r.status = 403 THEN "retry"
    ELSE IF r.status = 0 THEN "exit"
    ELSE "return"

\* The status policy of the while loop: 504 sleeps and retries, 403 and an
\* exception print and sys.exit(1), anything else breaks out of the loop.
ApiOutcome(r) ==
    IF r.status = 504 THEN "retry"
    ELSE IF r.status = 403 THEN "exit"
    ELSE IF r.status = 0 THEN "exit"
    ELSE "return"

\* try: return json.loads(r.text) except: return {}
json_loads(text) == IF text = Garbage THEN EmptyObj ELSE text

\* d['data']['gameReports'] / d['context'][...]: KeyError unless the field is there.
HasData(v) == v.kind \in {"page", "doc"}

\* The exception that v['data']['gameReports'] raises, if any (lines 129, 138):
\* KeyError when a dict lacks the key, TypeError when None is subscripted.
Subscript(v) ==
    IF HasData(v) THEN "none"
    ELSE IF v.kind \in {"null", "datanull"} THEN "TypeError"
    ELSE "KeyError"

\* Bodies of a report-list answer that are not a document with data.gameReports.
BadPages == {NoData, Garbage, Null, DataNull}

\* What kind of answer the service gave to battlelogApiFetch (the environment's view).
ApiClass(r) ==
    IF r.status = 504 THEN "504"
    ELSE IF r.status = 403 THEN "403"
    ELSE IF r.status = 0 THEN "error"
    ELSE "other"

\* The ERROR lines of a fatal answer: line 35 and then, the SystemExit of line 36
\* being caught by line 39, lines 40-41; or lines 40-41 alone.
ApiDiagnostics(r) == IF r.status = 403 THEN <<"forbidden", "access">> ELSE <<"access">>

ApiStatuses == {200, 500, 504, 403, 0}
ApiTexts    == {Doc, NoData, Garbage}

\* The bodies the service may send with a status other than 504 and 403 to the
\* k-th one-shot fetch: the expected document; for the first fetch and for
\* fetch OddFetch also a document without the expected fields and a body that
\* does not decode.
OneShotTexts(k) ==
    IF k = 1 THEN ApiTexts \cup {Null}
    ELSE IF k = OddFetch THEN ApiTexts
    ELSE {Doc}

(***************************************************************************)
(* The enumeration loop of main (lines 126-147)                            *)
(***************************************************************************)
BreakLoop_Strict(gameReports, n) == gameReports = <<>> /\ n > EmptyThreshold

\* if not reports['data']['gameReports'] and noDataReturned >= 5: break
BreakLoop(gameReports, n) == gameReports = <<>> /\ n >= EmptyThreshold

Cursor_First(list) == list[1].createdAt

\* str(report_list[-1]['createdAt']): the cursor of the 'more' request (line 136)
Cursor(list) == Last(list).createdAt

\* except KeyError: print('ERROR: Battle reports probably are hidden ...'); sys.exit(1)
OnHidden == [pc |-> "exit1", exitcode |-> 1, printed |-> <<"hidden">>]

\* The ids the service has handed out so far; a new stub gets the next one.
Fresh(list) == 1 + Cardinality({list[i].gameReportId : i \in DOMAIN list})

\* A page of s new stubs, after a repeat of the last known stub when dup.
NewPage(list, s, dup) ==
    (IF dup THEN <<Last(list)>> ELSE <<>>)
        \o [i \in 1..s |-> Stub(Fresh(list) + i - 1)]

\* The list lengths the model explores: short lists, and lists around BigPage
\* and around two full batches.
AllowedLen(n) ==
    \/ n <= MaxSmall
    \/ n >= BigPage /\ n <= BigPage + MaxExtra
    \/ n >= FullPage /\ n <= FullPage + MaxExtra

FirstSizes == (0..MaxSmall) \cup {BigPage, FullPage}

(***************************************************************************)
(* numpy.array_split and the partition of line 158                         *)
(***************************************************************************)
\* math.ceil(len(report_list)/20)
Sections(n) == (n + BatchSize - 1) \div BatchSize

\* section_sizes = [0] + extras*[Neach+1] + (k-extras)*[Neach]
SectionSize(n, k, j) == IF j <= n % k THEN (n \div k) + 1 ELSE n \div k

\* div_points = cumsum(section_sizes)
RECURSIVE DivPoint(_, _, _)
DivPoint(n, k, j) == IF j = 0 THEN 0 ELSE DivPoint(n, k, j - 1) + SectionSize(n, k, j)

array_split_Chunks(l, k) ==
    [j \in 1..k |-> SubSeq(l, (j - 1) * BatchSize + 1, Min(j * BatchSize, Len(l)))]

array_split_Floor(l, k) ==
    [j \in 1..k |-> SubSeq(l, (j - 1) * (Len(l) \div k) + 1, j * (Len(l) \div k))]

\* numpy.array_split(l, k) for k >= 1: k consecutive sections, the first
\* len % k of them one element longer than the rest.
array_split(l, k) ==
    [j \in 1..k |-> SubSeq(l, DivPoint(Len(l), k, j - 1) + 1, DivPoint(Len(l), k, j))]

(***************************************************************************)
(* battlelogRetrieveReport (lines 54-83)                                   *)
(* A response is [kind, status, body]: kind "http" is a response with a    *)
(* status, "oserror" is session.get raising aiohttp ClientOSError and      *)
(* "timeout" is the session's ClientTimeout raising asyncio.TimeoutError.  *)
(***************************************************************************)
Http(status, body) == [kind |-> "http", status |-> status, body |-> body]
OSError == [kind |-> "oserror", status |-> 0, body |-> Garbage]
Timeout == [kind |-> "timeout", status |-> 0, body |-> Garbage]

Sleep(d)   == [act |-> "sleep", delay |-> d]
Return     == [act |-> "return", delay |-> 0]
Fail       == [act |-> "fail", delay |-> 0]
Raise      == [act |-> "raise", delay |-> 0]

RecordOutcome_Cap5(resp, attempt) ==
    IF resp.kind = "oserror" THEN Sleep(OSErrorSleep)
    ELSE IF resp.kind = "timeout" THEN Raise
    ELSE IF resp.status # 200 THEN Sleep(BlockSleep)
    ELSE IF resp.body = Garbage THEN Raise
    ELSE IF Truthy(resp.body) /\ resp.body # Null THEN Return
    ELSE IF attempt >= AttemptCap - 1 THEN Fail
    ELSE Sleep(RetrySleep)

RecordOutcome_BlockCapped(resp, attempt) ==
    IF resp.kind = "oserror" THEN Sleep(OSErrorSleep)
    ELSE IF resp.kind = "timeout" THEN Raise
    ELSE IF resp.status # 200 THEN (IF attempt >= AttemptCap THEN Fail ELSE Sleep(BlockSleep))
    ELSE IF resp.body = Garbage THEN Raise
    ELSE IF Truthy(resp.body) /\ resp.body # Null THEN Return
    ELSE IF attempt >= AttemptCap THEN Fail
    ELSE Sleep(RetrySleep)

\* One pass of the while loop on the response to the request of this attempt:
\*   except ClientOSError           -> time.sleep(10); continue
\*   any other exception            -> propagates out of the coroutine
\*   assert resp.status == 200      -> AssertionError: time.sleep(600); continue
\*   await resp.json() fails        -> propagates out of the coroutine
\*   report and text != 'null'      -> return report
\*   attempt >= 6                   -> return {}
\*   else                           -> time.sleep(3); continue
RecordOutcome(resp, attempt) ==
    IF resp.kind = "oserror" THEN Sleep(OSErrorSleep)
    ELSE IF resp.kind = "timeout" THEN Raise
    ELSE IF resp.status # 200 THEN Sleep(BlockSleep)
    ELSE IF resp.body = Garbage THEN Raise
    ELSE IF Truthy(resp.body) /\ resp.body # Null THEN Return
    ELSE IF attempt >= AttemptCap THEN Fail
    ELSE Sleep(RetrySleep)

\* What kind of answer the service gave (the environment's view of a response).
RespClass(resp) ==
    IF resp.kind # "http" THEN resp.kind
    ELSE IF resp.status # 200 THEN "non200"
    ELSE IF resp.body = Garbage THEN "garbage"
    ELSE IF resp.body \in {Null, EmptyObj} THEN "empty"
    ELSE "ok"

Flaky(g) == g = FlakyRecord

Faults ==
    { Http(200, Null), Http(200, EmptyObj), Http(200, Garbage),
      Http(403, Garbage), Http(503, Garbage), OSError, Timeout }

\* The answers the service may give to the request for record g.
RecordResponses(g, attempt) ==
    {Http(200, Report(g))}
        \cup (IF Flaky(g) /\ attempt < MaxAttempt THEN Faults ELSE {})

\* A fetch task: the coroutine's local attempt, its position, and what the
\* service has answered so far.
NewTask(g, p) ==
    [st |-> "created", url |-> g, pos |-> p, attempt |-> 0, reqs |-> 0,
     nEmpty |-> 0, nBlock |-> 0, nErr |-> 0, last |-> "none", delay |-> 0,
     ret |-> NoRet]

\* A finished coroutine keeps only its result.
Finished(t, state, value) ==
    [NewTask(t.url, t.pos) EXCEPT !.st = state, !.ret = value]

Answered(t, class) ==
    [t EXCEPT !.nEmpty = @ + (IF class = "empty" THEN 1 ELSE 0),
              !.nBlock = @ + (IF class = "non200" THEN 1 ELSE 0),
              !.nErr   = @ + (IF class = "oserror" THEN 1 ELSE 0),
              !.last   = class]

NoReturn == [NewTask(0, 0) EXCEPT !.st = "none"]

(***************************************************************************)
(* asyncio.gather and the aggregation of lines 166-171                     *)
(***************************************************************************)
GatherReady_First(ts) == \E i \in DOMAIN ts : ts[i].st = "returned"

\* await asyncio.gather(*tasks) returns when every task has returned.
GatherReady(ts) == \A i \in DOMAIN ts : ts[i].st = "returned"

RECURSIVE Collect_All(_, _)
Collect_All(acc, rets) ==
    IF rets = <<>> THEN acc ELSE Collect_All(Append(acc, Head(rets)), Tail(rets))

RECURSIVE Collect_Dedup(_, _)
Collect_Dedup(acc, rets) ==
    IF rets = <<>> THEN acc
    ELSE Collect_Dedup(IF Truthy(Head(rets)) /\ \A k \in DOMAIN acc : acc[k] # Head(rets)
                         THEN Append(acc, Head(rets)) ELSE acc, Tail(rets))

\* for report in reports: if report: battlelog_reports.append(report)
RECURSIVE Collect(_, _)
Collect(acc, rets) ==
    IF rets = <<>> THEN acc
    ELSE Collect(IF Truthy(Head(rets)) THEN Append(acc, Head(rets)) ELSE acc, Tail(rets))

(***************************************************************************)
(* The files of the sink (lines 177-188)                                   *)
(***************************************************************************)
MetaFiles ==
    << "profile_data.json", "club_data.json", "weapon_stats.json",
       "vehicle_stats.json", "detailed_stats.json", "assignment_stats.json",
       "award_stats.json" >>

\* A write of `content` to the file at `path` under the profile's directory.
File(path, content) == [path |-> path, content |-> content]

(***************************************************************************)
(* State                                                                   *)
(***************************************************************************)
VARIABLES
    pc,                \* where main is: "oneshot", "first", "more", "split", "batch",
                       \* "gather", "sink"; ended: "done", "exit1" (sys.exit(1)),
                       \* "crash" (an exception nothing catches)
    exitcode,          \* the process's exit code, -1 while it runs
    meta,              \* how many of the one-shot fetches have returned
    fetched,           \* what they returned: profile_data, club_data, weapon_stats, ...
    n504,              \* consecutive 504 answers to the current battlelogApiFetch call
    report_list,       \* main's report_list: the stubs, then (line 158) the batches
    noDataReturned,    \* main's noDataReturned
    chunk,             \* report_list_chunk + 1: the batch being fetched
    tasks,             \* the fetch tasks of the current batch
    battlelog_reports, \* main's battlelog_reports
    files,             \* the writes done to disk, in order
    got403,            \* history: battlelogApiFetch has received a 403
    seen,              \* history: the stubs of every page the service has answered
    emptyRun,          \* history: empty 'more' pages answered since the last non-empty one
    created,           \* history: the stubs a fetch task has been created for
    succeeded,         \* history: positions whose task returned a report
    lastReturn,        \* history: the task that ended last, as it was when it ended
    faulted,           \* history: some record request was not answered by a valid body
    cursor,            \* the cursor of the last 'more' request, 0 before the first
    apiReturn,         \* what the last battlelogApiFetch call returned, NoRet while it has not
    lastApi,           \* history: the last answer to battlelogApiFetch
    firstLacksData,    \* history: the first report-list page had no data member at all
    printed            \* the ERROR lines printed

vars == << pc, exitcode, meta, fetched, n504, report_list, noDataReturned, chunk, tasks,
           battlelog_reports, files, got403, seen, emptyRun, created, succeeded,
           lastReturn, faulted, cursor, apiReturn, lastApi, firstLacksData, printed >>

enumVars  == << report_list, noDataReturned, seen, emptyRun >>
fetchVars == << chunk, tasks, battlelog_reports, created, succeeded, lastReturn, faulted >>
apiVars   == << apiReturn, lastApi >>

Init ==
    /\ pc = "oneshot"
    /\ exitcode = -1
    /\ meta = 0
    /\ fetched = <<>>
    /\ n504 = 0
    /\ report_list = <<>>
    /\ noDataReturned = 0
    /\ chunk = 0
    /\ tasks = <<>>
    /\ battlelog_reports = <<>>
    /\ files = <<>>
    /\ got403 = FALSE
    /\ seen = <<>>
    /\ emptyRun = 0
    /\ created = <<>>
    /\ succeeded = {}
    /\ lastReturn = NoReturn
    /\ faulted = FALSE
    /\ cursor = 0
    /\ apiReturn = NoRet
    /\ lastApi = [class |-> "none", text |-> NoRet]
    /\ firstLacksData = FALSE
    /\ printed = <<>>

(***************************************************************************)
(* battlelogApiFetch, as its three callers see it                          *)
(***************************************************************************)
\* The responses the service may give to a battlelogApiFetch request whose
\* answers, when the status is neither 504 nor 403, carry one of `texts`: every
\* request can also be answered 504 or 403, or fail in requests.get.
ApiResponses(texts) ==
    { r \in [status : ApiStatuses, text : texts \cup {Garbage}] :
        /\ r.status \in {504, 403, 0} => r.text = Garbage
        /\ r.status \notin {504, 403, 0} => r.text \in texts
        /\ ApiOutcome(r) = "retry" => n504 < Max504 }

\* time.sleep(5); continue
ApiRetry(r) ==
    /\ ApiOutcome(r) = "retry"
    /\ n504' = n504 + 1
    /\ got403' = (got403 \/ r.status = 403)
    /\ lastApi' = [class |-> ApiClass(r), text |-> r.text]
    /\ apiReturn' = NoRet
    /\ UNCHANGED << pc, exitcode, meta, fetched, files, firstLacksData, printed >>
    /\ UNCHANGED enumVars
    /\ UNCHANGED fetchVars

\* print(...); sys.exit(1).  The SystemExit of line 36 is caught by line 39,
\* which prints and exits with 1 again.
ApiExit(r) ==
    /\ ApiOutcome(r) = "exit"
    /\ pc' = "exit1"
    /\ exitcode' = 1
    /\ n504' = 0
    /\ got403' = (got403 \/ r.status = 403)
    /\ lastApi' = [class |-> ApiClass(r), text |-> r.text]
    /\ apiReturn' = NoRet
    /\ printed' = printed \o ApiDiagnostics(r)
    /\ UNCHANGED << meta, fetched, files, firstLacksData >>
    /\ UNCHANGED enumVars
    /\ UNCHANGED fetchVars

\* battlelogApiFetch returns json.loads(r.text), or {} (lines 43-46).
ApiReturn(r) ==
    /\ ApiOutcome(r) = "return"
    /\ got403' = (got403 \/ r.status = 403)
    /\ n504' = 0
    /\ lastApi' = [class |-> ApiClass(r), text |-> r.text]
    /\ apiReturn' = json_loads(r.text)

\* An exception that nothing catches ends asyncio.run(main()) with a traceback.
Crash ==
    /\ pc' = "crash"
    /\ exitcode' = 1

(***************************************************************************)
(* main: the one-shot fetches (lines 94-122)                               *)
(***************************************************************************)
OneShotFetch ==
    /\ pc = "oneshot"
    /\ UNCHANGED cursor
    /\ \E r \in ApiResponses(OneShotTexts(meta + 1)) :
        \/ ApiRetry(r)
        \/ ApiExit(r)
        \/ /\ ApiReturn(r)
           /\ UNCHANGED << files, firstLacksData, printed >>
           /\ UNCHANGED enumVars
           /\ UNCHANGED fetchVars
           /\ IF meta = 0 /\ ~HasData(json_loads(r.text))
                THEN \* profile_data['context'] raises KeyError (line 96)
                     Crash /\ UNCHANGED << meta, fetched >>
                ELSE /\ meta' = meta + 1
                     /\ fetched' = Append(fetched, json_loads(r.text))
                     /\ pc' = IF meta' = NumOneShot THEN "first" ELSE "oneshot"
                     /\ UNCHANGED exitcode

(***************************************************************************)
(* main: the first report-list page (lines 126-133)                        *)
(***************************************************************************)
FirstPage ==
    /\ pc = "first"
    /\ UNCHANGED cursor
    /\ \E r \in ApiResponses(BadPages \cup {Page(NewPage(<<>>, s, FALSE)) : s \in FirstSizes}) :
        \/ ApiRetry(r)
        \/ ApiExit(r)
        \/ /\ ApiReturn(r)
           /\ UNCHANGED << meta, fetched, files, emptyRun >>
           /\ UNCHANGED fetchVars
           /\ LET v == json_loads(r.text) IN
              IF Subscript(v) = "KeyError"
                THEN \* except KeyError: print(...); sys.exit(1)
                     /\ pc' = OnHidden.pc
                     /\ exitcode' = OnHidden.exitcode
                     /\ printed' = printed \o OnHidden.printed
                     /\ firstLacksData' = TRUE
                     /\ UNCHANGED << report_list, noDataReturned, seen >>
                ELSE IF Subscript(v) = "TypeError"
                THEN \* the try of line 128 catches KeyError only
                     /\ Crash
                     /\ firstLacksData' = (v = Null)
                     /\ UNCHANGED << report_list, noDataReturned, seen, printed >>
                ELSE /\ report_list' = report_list \o v.gameReports
                     /\ seen' = seen \o v.gameReports
                     /\ noDataReturned' = 0
                     /\ pc' = "more"
                     /\ UNCHANGED << exitcode, firstLacksData, printed >>

(***************************************************************************)
(* main: one pass of the enumeration loop (lines 134-147)                  *)
(***************************************************************************)
\* The pages the service may answer to the 'more' request after `list`.
MorePages(list) ==
    { Page(NewPage(list, s, dup)) :
        s \in 0..MaxSmall, dup \in {FALSE} \cup {Fresh(list) = Len(list) + 1} }

MorePage ==
    /\ pc = "more"
    /\ IF report_list = <<>>
         THEN \* report_list[-1] raises IndexError (line 136), before any request
              /\ Crash
              /\ UNCHANGED << meta, fetched, n504, files, got403, cursor, firstLacksData, printed >>
              /\ UNCHANGED enumVars
              /\ UNCHANGED fetchVars
              /\ UNCHANGED apiVars
         ELSE /\ cursor' = Cursor(report_list)
              /\ \E r \in ApiResponses(BadPages \cup
                         { p \in MorePages(report_list) :
                             AllowedLen(Len(report_list) + Len(p.gameReports)) }) :
               \/ ApiRetry(r)
               \/ ApiExit(r)
               \/ /\ ApiReturn(r)
                  /\ UNCHANGED << meta, fetched, files, firstLacksData, printed >>
                  /\ UNCHANGED fetchVars
                  /\ LET v == json_loads(r.text) IN
                     IF ~HasData(v)
                       THEN \* reports['data'] raises KeyError (line 138)
                            /\ Crash
                            /\ UNCHANGED enumVars
                       ELSE /\ seen' = seen \o v.gameReports
                            /\ emptyRun' = IF v.gameReports = <<>> THEN emptyRun + 1 ELSE 0
                            /\ UNCHANGED exitcode
                            /\ IF BreakLoop(v.gameReports, noDataReturned)
                                 THEN /\ pc' = "split"
                                      /\ UNCHANGED << report_list, noDataReturned >>
                                 ELSE IF v.gameReports = <<>>
                                 THEN /\ noDataReturned' = noDataReturned + 1
                                      /\ UNCHANGED << pc, report_list >>
                                 ELSE /\ noDataReturned' = 0
                                      /\ report_list' = report_list \o v.gameReports
                                      /\ UNCHANGED pc

(***************************************************************************)
(* main: the partition (lines 148-159)                                     *)
(***************************************************************************)
Split ==
    /\ pc = "split"
    /\ UNCHANGED << meta, fetched, n504, files, got403, noDataReturned, seen, emptyRun >>
    /\ UNCHANGED << tasks, battlelog_reports, created, succeeded, lastReturn, faulted >>
    /\ UNCHANGED << cursor, firstLacksData, printed >>
    /\ UNCHANGED apiVars
    /\ IF Sections(Len(report_list)) <= 0
         THEN \* numpy raises ValueError: number sections must be larger than 0
              /\ Crash
              /\ UNCHANGED << report_list, chunk >>
         ELSE /\ report_list' = array_split(report_list, Sections(Len(report_list)))
              /\ chunk' = 1
              /\ pc' = "batch"
              /\ UNCHANGED exitcode

(***************************************************************************)
(* main: one batch (lines 160-171)                                         *)
(***************************************************************************)
\* Lines 161-165: a session, and one task per stub of the batch.  ensure_future
\* only schedules the coroutines: none runs before main awaits.
CreateBatch ==
    /\ pc = "batch"
    /\ chunk <= Len(report_list)
    /\ tasks' = [i \in 1..Len(report_list[chunk]) |->
                    NewTask(report_list[chunk][i].gameReportId, Len(created) + i)]
    /\ created' = created \o report_list[chunk]
    /\ pc' = "gather"
    /\ UNCHANGED << exitcode, meta, fetched, n504, files, got403, chunk, battlelog_reports,
                    succeeded, lastReturn, faulted >>
    /\ UNCHANGED enumVars
    /\ UNCHANGED << cursor, firstLacksData, printed >>
    /\ UNCHANGED apiVars

\* time.sleep() in a coroutine suspends the event loop's thread: while a task
\* sleeps, no other task and not main can run.
Blocked == \E j \in DOMAIN tasks : tasks[j].st = "sleeping"

\* The loop runs the scheduled coroutines in the order they were created, each up
\* to its first await: attempt += 1 and the request (lines 55-59).
StartTask(i) ==
    /\ pc = "gather"
    /\ tasks[i].st = "created"
    /\ \A j \in 1..(i - 1) : tasks[j].st # "created"
    /\ tasks' = [tasks EXCEPT ![i] = [@ EXCEPT !.st = "waiting", !.attempt = @ + 1,
                                                 !.reqs = @ + 1]]
    /\ UNCHANGED << pc, exitcode, meta, fetched, n504, files, got403, chunk, battlelog_reports,
                    created, succeeded, lastReturn, faulted >>
    /\ UNCHANGED enumVars
    /\ UNCHANGED << cursor, firstLacksData, printed >>
    /\ UNCHANGED apiVars

\* The order in which the model lets the responses of a batch arrive: a task's
\* response arrives once every task MaxRace or more places before it has ended.
Eligible(i) == \A j \in 1..(i - MaxRace) : tasks[j].st \in {"returned", "raised"}

\* What the coroutine of task i does with the answer resp once it is complete
\* (lines 60-83): it sleeps, returns or raises.
Settle(i, resp) ==
    LET o == RecordOutcome(resp, tasks[i].attempt)
        t == Answered(tasks[i], RespClass(resp))
    IN  /\ tasks' = [tasks EXCEPT ![i] =
               CASE o.act = "sleep"  -> [t EXCEPT !.st = "sleeping", !.delay = o.delay]
                 [] o.act = "return" -> Finished(t, "returned", resp.body)
                 [] o.act = "fail"   -> Finished(t, "returned", EmptyObj)
                 [] o.act = "raise"  -> Finished(t, "raised", NoRet)]
        /\ succeeded' = IF o.act = "return" THEN succeeded \cup {t.pos} ELSE succeeded
        /\ lastReturn' = CASE o.act = "sleep"  -> lastReturn
                           [] o.act = "return" -> [t EXCEPT !.st = "returned", !.ret = resp.body]
                           [] o.act = "fail"   -> [t EXCEPT !.st = "returned", !.ret = EmptyObj]
                           [] o.act = "raise"  -> [t EXCEPT !.st = "raised"]
        /\ faulted' = (faulted \/ RespClass(resp) # "ok")

\* The status line of the answer to task i's request arrives, or the request
\* fails (lines 59-60).  With status 200 the assert passes and the coroutine
\* suspends in await resp.json() until the body is there; otherwise it runs on
\* to its time.sleep() or raises.
ReceiveStatus(i) ==
    /\ pc = "gather"
    /\ tasks[i].st = "waiting"
    /\ ~Blocked
    /\ \A j \in DOMAIN tasks : tasks[j].st # "created"
    /\ Eligible(i)
    /\ \E resp \in RecordResponses(tasks[i].url, tasks[i].attempt) :
         IF resp.kind = "http" /\ resp.status = 200
           THEN /\ tasks' = [tasks EXCEPT ![i] = [@ EXCEPT !.st = "reading"]]
                /\ UNCHANGED << succeeded, lastReturn, faulted >>
           ELSE Settle(i, resp)
    /\ UNCHANGED << pc, exitcode, meta, fetched, n504, files, got403, chunk, battlelog_reports,
                    created >>
    /\ UNCHANGED enumVars
    /\ UNCHANGED << cursor, firstLacksData, printed >>
    /\ UNCHANGED apiVars

\* The body of a 200 answer is complete, or the connection breaks or the
\* session's timeout expires while the coroutine waits for it: await resp.json()
\* ends and the coroutine runs to its return, its time.sleep() (3 s after an
\* empty body, 10 s after a ClientOSError, which line 81 catches here as well)
\* or its exception (lines 61-83).  resp.text() finds the body already read.
ReceiveBody(i) ==
    /\ pc = "gather"
    /\ tasks[i].st = "reading"
    /\ ~Blocked
    /\ \E resp \in RecordResponses(tasks[i].url, tasks[i].attempt) :
         /\ resp.kind \in {"timeout", "oserror"} \/ (resp.kind = "http" /\ resp.status = 200)
         /\ Settle(i, resp)
    /\ UNCHANGED << pc, exitcode, meta, fetched, n504, files, got403, chunk, battlelog_reports,
                    created >>
    /\ UNCHANGED enumVars
    /\ UNCHANGED << cursor, firstLacksData, printed >>
    /\ UNCHANGED apiVars

\* time.sleep(...) returns; continue: attempt += 1 and the next request.
Wake(i) ==
    /\ pc = "gather"
    /\ tasks[i].st = "sleeping"
    /\ tasks' = [tasks EXCEPT ![i] = [@ EXCEPT !.st = "waiting", !.delay = 0,
                                                 !.last = "none",
                                                 !.attempt = @ + 1, !.reqs = @ + 1]]
    /\ UNCHANGED << pc, exitcode, meta, fetched, n504, files, got403, chunk, battlelog_reports,
                    created, succeeded, lastReturn, faulted >>
    /\ UNCHANGED enumVars
    /\ UNCHANGED << cursor, firstLacksData, printed >>
    /\ UNCHANGED apiVars

\* gather returns the tasks' results in task order; lines 167-171 keep the
\* non-empty ones; the session closes and the for loop goes on.
GatherDone ==
    /\ pc = "gather"
    /\ ~Blocked
    /\ \A j \in DOMAIN tasks : tasks[j].st \notin {"created", "raised"}
    /\ GatherReady(tasks)
    /\ battlelog_reports' = Collect(battlelog_reports, [i \in DOMAIN tasks |-> tasks[i].ret])
    /\ tasks' = <<>>
    /\ chunk' = chunk + 1
    /\ pc' = IF chunk' > Len(report_list) THEN "sink" ELSE "batch"
    /\ UNCHANGED << exitcode, meta, fetched, n504, files, got403, created, succeeded, lastReturn,
                    faulted >>
    /\ UNCHANGED enumVars
    /\ UNCHANGED << cursor, firstLacksData, printed >>
    /\ UNCHANGED apiVars

\* gather re-raises the first exception of a task in main, which nothing catches.
GatherRaise ==
    /\ pc = "gather"
    /\ ~Blocked
    /\ \E j \in DOMAIN tasks : tasks[j].st = "raised"
    /\ Crash
    /\ UNCHANGED << meta, fetched, n504, files, got403 >>
    /\ UNCHANGED enumVars
    /\ UNCHANGED fetchVars
    /\ UNCHANGED << cursor, firstLacksData, printed >>
    /\ UNCHANGED apiVars

(***************************************************************************)
(* main: the write to disk (lines 175-194)                                 *)
(***************************************************************************)
SinkWrites_Twice ==
    [k \in 1..Len(MetaFiles) |-> File(<<MetaFiles[k]>>, fetched[k])]
        \o << File(<<"report_list.json">>, report_list) >>
        \o [k \in 1..(2 * Len(battlelog_reports)) |->
                File(<<"reports", battlelog_reports[(k + 1) \div 2].id>>,
                     battlelog_reports[(k + 1) \div 2])]

\* The writes of the try block, in order.
SinkWrites ==
    [k \in 1..Len(MetaFiles) |-> File(<<MetaFiles[k]>>, fetched[k])]
        \o << File(<<"report_list.json">>, report_list) >>
        \o [k \in 1..Len(battlelog_reports) |->
                File(<<"reports", battlelog_reports[k].id>>, battlelog_reports[k])]

\* The next write succeeds; after the last one main returns and the process
\* exits with 0.
SinkWrite ==
    /\ pc = "sink"
    /\ files' = Append(files, SinkWrites[Len(files) + 1])
    /\ IF Len(files') = Len(SinkWrites)
         THEN pc' = "done" /\ exitcode' = 0
         ELSE UNCHANGED << pc, exitcode >>
    /\ UNCHANGED << meta, fetched, n504, got403 >>
    /\ UNCHANGED enumVars
    /\ UNCHANGED fetchVars
    /\ UNCHANGED << cursor, firstLacksData, printed >>
    /\ UNCHANGED apiVars

\* makedirs or a write raises: except BaseException: print(...); sys.exit(1)
SinkFail ==
    /\ pc = "sink"
    /\ pc' = "exit1"
    /\ exitcode' = 1
    /\ printed' = Append(printed, "disk")
    /\ UNCHANGED << meta, fetched, n504, files, got403, cursor, firstLacksData >>
    /\ UNCHANGED enumVars
    /\ UNCHANGED fetchVars
    /\ UNCHANGED apiVars

Next ==
    \/ OneShotFetch
    \/ FirstPage
    \/ MorePage
    \/ Split
    \/ CreateBatch
    \/ \E i \in DOMAIN tasks : StartTask(i)
    \/ \E i \in DOMAIN tasks : ReceiveStatus(i)
    \/ \E i \in DOMAIN tasks : ReceiveBody(i)
    \/ \E i \in DOMAIN tasks : Wake(i)
    \/ GatherDone
    \/ GatherRaise
    \/ SinkWrite
    \/ SinkFail

Spec == Init /\ [][Next]_vars

(***************************************************************************)
(* Helpers of the properties                                               *)
(***************************************************************************)
Enumerated == pc \in {"split", "batch", "gather", "sink", "done"}
Partitioned == pc \in {"batch", "gather", "sink", "done"}
Running(t) == t.st \in {"created", "waiting", "reading", "sleeping"}
Sizes == [j \in DOMAIN report_list |-> Len(report_list[j])]

\* The reports of the positions 1..n whose task returned one, in position order.
RECURSIVE SuccessReports(_)
SuccessReports(n) ==
    IF n = 0 THEN <<>>
    ELSE IF n \in succeeded
           THEN Append(SuccessReports(n - 1), Report(seen[n].gameReportId))
           ELSE SuccessReports(n - 1)

(***************************************************************************)
(* C1 (as stated): the enumeration loop stops exactly when 5 consecutive   *)
(* empty pages have been observed: it goes on with fewer than 5, it has    *)
(* left the loop at 5 without a further request, and the accumulated list  *)
(* is the first page followed by every non-empty page.                     *)
(***************************************************************************)
C1_StopsAtFiveEmptyPages ==
    /\ pc = "more" => emptyRun < EmptyThreshold
    /\ Enumerated => emptyRun = EmptyThreshold
    /\ pc \in {"more", "split"} => report_list = seen

(***************************************************************************)
(* C1 (amended): the loop is left only when 6 consecutive empty pages have *)
(* been observed: the first five raise noDataReturned from 0 to 5 and the  *)
(* break is taken on the next empty page; the counter equals the number of *)
(* empty pages since the last non-empty one (a non-empty page resets it to *)
(* zero); the accumulated list is the first page followed by every         *)
(* non-empty page.                                                         *)
(***************************************************************************)
C1_StopsAtSixEmptyPages ==
    /\ pc = "more" => emptyRun <= EmptyThreshold /\ noDataReturned = emptyRun
    /\ Enumerated => emptyRun = EmptyThreshold + 1 /\ noDataReturned = EmptyThreshold
    /\ pc \in {"more", "split"} => report_list = seen

\* The loop has ended after a first page and a later non-empty page.
C1_Witness ==
    /\ pc = "split"
    /\ emptyRun = EmptyThreshold + 1
    /\ Len(report_list) = MaxSmall
    /\ report_list[1] # report_list[2]

(***************************************************************************)
(* C2: a profile whose first page holds 0 reports is enumerated without    *)
(* indexing into the empty list and the run goes on to the sink: after an  *)
(* empty first page the run does not end with an uncaught exception.       *)
(***************************************************************************)
C2_ZeroReportsReachSink ==
    (meta = NumOneShot /\ pc # "first" /\ seen = <<>> /\ apiReturn = Page(<<>>))
        => pc # "crash"

(***************************************************************************)
(* C3: a 403 answer to battlelogApiFetch ends the run with exit code 1:    *)
(* no retry and no further step of any kind follows it, no fetch task      *)
(* exists and nothing has been written.                                    *)
(***************************************************************************)
C3_Fatal403 ==
    /\ [](got403 => /\ pc = "exit1"
                    /\ exitcode = 1
                    /\ files = <<>>
                    /\ tasks = <<>>
                    /\ created = <<>>)
    /\ [][~got403]_vars

\* A 403 has answered a 'more' request of the enumeration.
C3_Witness == got403 /\ pc = "exit1" /\ meta = NumOneShot /\ seen # <<>>

(***************************************************************************)
(* C4: for N >= 1 stubs the partition forms exactly ceil(N/20) batches,    *)
(* the batches put end to end are the stub list (every stub in exactly one *)
(* batch), and the tasks created are one per stub, batch by batch.         *)
(***************************************************************************)
C4_PartitionExhaustive ==
    Partitioned =>
        /\ Len(seen) >= 1
        /\ Len(report_list) * BatchSize >= Len(seen)
        /\ (Len(report_list) - 1) * BatchSize < Len(seen)
        /\ Flatten(report_list) = seen
        /\ created = SubSeq(seen, 1, Len(created))
        /\ pc = "gather" =>
              /\ Len(tasks) = Len(report_list[chunk])
              /\ \A i \in DOMAIN tasks :
                    /\ tasks[i].pos = Len(created) - Len(tasks) + i
                    /\ tasks[i].url = seen[tasks[i].pos].gameReportId
        /\ pc \in {"sink", "done"} => created = seen

\* A run of 25 stubs has fetched its two batches.
C4_Witness ==
    /\ pc = "done"
    /\ Len(seen) = BigPage + 1
    /\ Len(report_list) = 2
    /\ created = seen

(***************************************************************************)
(* C5 (as stated): every batch but the last holds exactly 20 stubs and the *)
(* last holds the remainder.                                               *)
(***************************************************************************)
C5_FullBatchesThenRemainder ==
    Partitioned =>
        /\ Flatten(report_list) = seen
        /\ \A j \in DOMAIN report_list :
              Len(report_list[j]) =
                 IF j < Len(report_list) THEN BatchSize
                 ELSE Len(seen) - (Len(report_list) - 1) * BatchSize

(***************************************************************************)
(* C5 (amended): the stubs are partitioned in list order into consecutive  *)
(* batches of at most 20 whose sizes differ by at most one, the longer     *)
(* ones first; 25 stubs give the batches of sizes 13 and 12.               *)
(***************************************************************************)
C5_BalancedBatches ==
    Partitioned =>
        /\ Flatten(report_list) = seen
        /\ \A j \in DOMAIN Sizes : Sizes[j] >= 1 /\ Sizes[j] <= BatchSize
        /\ \A j, k \in DOMAIN Sizes : j < k => Sizes[j] - Sizes[k] \in {0, 1}
        /\ Len(seen) = 25 => Sizes = <<13, 12>>

\* 24 stubs have been split into 12 and 12.
C5_Witness ==
    /\ Partitioned
    /\ Len(seen) = BigPage
    /\ Len(Sizes) = 2
    /\ Sizes[1] = Sizes[2]

(***************************************************************************)
(* C6: at most 20 fetch tasks are unfinished at any time, and batches do   *)
(* not overlap: main moves to the next batch, and creates its tasks, only  *)
(* when every task of the current batch has returned.                      *)
(***************************************************************************)
C6_BoundedSequentialBatches ==
    /\ [](Cardinality({i \in DOMAIN tasks : Running(tasks[i])}) <= BatchSize)
    /\ [][(chunk' # chunk \/ created' # created)
            => \A i \in DOMAIN tasks : tasks[i].st = "returned"]_vars

\* The 20 tasks of a second batch are all waiting for their responses.
C6_Witness ==
    /\ pc = "gather"
    /\ chunk = 2
    /\ Len(tasks) = BatchSize
    /\ \A i \in DOMAIN tasks : tasks[i].st = "waiting"

(***************************************************************************)
(* C7: while a task sleeps in a retry or rate-limit delay, every other     *)
(* task of the batch that waits for its response, or for the body of its   *)
(* response, can still receive it.                                         *)
(***************************************************************************)
C7_SleepBlocksOnlyOwner ==
    \A i, j \in DOMAIN tasks :
        (pc = "gather" /\ tasks[i].st = "sleeping") =>
            /\ (tasks[j].st = "waiting" /\ Eligible(j)) => ENABLED ReceiveStatus(j)
            /\ tasks[j].st = "reading" => ENABLED ReceiveBody(j)

(***************************************************************************)
(* C8: a record answered only by 200 responses with an empty body is       *)
(* requested exactly 6 times and then skipped (its task returns the empty  *)
(* sentinel on the 6th answer, not before and not later); the sentinel is  *)
(* never put in the result; a task's return never ends the run; and when   *)
(* the fetch stage has ended the result holds, in order, the report of     *)
(* every position whose task returned one.                                 *)
(***************************************************************************)
C8_SkippedAfterSixEmpty ==
    /\ \A i \in DOMAIN tasks :
          /\ (tasks[i].st \in {"waiting", "reading"} /\ tasks[i].nEmpty = tasks[i].reqs - 1)
                => tasks[i].reqs <= AttemptCap
          /\ (tasks[i].st = "sleeping" /\ tasks[i].nEmpty = tasks[i].reqs)
                => tasks[i].reqs < AttemptCap
    /\ (lastReturn.st = "returned" /\ lastReturn.nEmpty = lastReturn.reqs)
          => lastReturn.reqs = AttemptCap /\ lastReturn.ret = EmptyObj
    /\ \A k \in DOMAIN battlelog_reports : battlelog_reports[k] # EmptyObj
    /\ (pc = "crash" /\ tasks # <<>>) => \E i \in DOMAIN tasks : tasks[i].st = "raised"
    /\ pc \in {"sink", "done"} => battlelog_reports = SuccessReports(Len(seen))

\* Record 2 was answered six empty bodies and skipped; record 1 of the same
\* batch is in the result of the finished run, record 2 is not.
C8_Witness ==
    /\ pc = "done"
    /\ lastReturn.st = "returned"
    /\ lastReturn.ret = EmptyObj
    /\ lastReturn.reqs = AttemptCap
    /\ lastReturn.nEmpty = AttemptCap
    /\ Len(seen) = 2
    /\ lastReturn.url = seen[2].gameReportId
    /\ battlelog_reports = <<Report(seen[1].gameReportId)>>
    /\ seen[2].gameReportId # seen[1].gameReportId

(***************************************************************************)
(* C9: a non-200 answer never ends a task: the task sleeps 600 s and asks  *)
(* again, however many non-200 answers came before; a task returns the     *)
(* empty sentinel only on an empty body; and a valid body that follows     *)
(* k >= 1 non-200 answers is returned, recorded as a success and present   *)
(* in the result of the fetch stage.                                       *)
(***************************************************************************)
C9_RateLimitedRetriesForever ==
    /\ \A i \in DOMAIN tasks :
          /\ tasks[i].last = "non200" => tasks[i].st = "sleeping" /\ tasks[i].delay = BlockSleep
          /\ (Running(tasks[i]) /\ tasks[i].nBlock > 0 /\ tasks[i].st # "sleeping")
                => tasks[i].st \in {"waiting", "reading"} /\ tasks[i].reqs > tasks[i].nBlock
    /\ lastReturn.st = "returned" => lastReturn.last \in {"ok", "empty"}
    /\ lastReturn.st = "raised" => lastReturn.last \in {"garbage", "timeout"}
    /\ lastReturn.ret = EmptyObj => lastReturn.last = "empty"
    /\ lastReturn.last = "ok" =>
          /\ lastReturn.st = "returned"
          /\ lastReturn.ret = Report(lastReturn.url)
          /\ lastReturn.pos \in succeeded
    /\ pc \in {"sink", "done"} =>
          \A p \in succeeded :
              \E k \in DOMAIN battlelog_reports :
                  battlelog_reports[k] = Report(seen[p].gameReportId)

\* Six non-200 answers, then a valid body on the 7th request: the report is
\* in the result of the finished run.
C9_Witness ==
    /\ pc = "done"
    /\ lastReturn.st = "returned"
    /\ lastReturn.nBlock = AttemptCap
    /\ lastReturn.reqs = AttemptCap + 1
    /\ lastReturn.ret = Report(lastReturn.url)
    /\ \E k \in DOMAIN battlelog_reports : battlelog_reports[k] = lastReturn.ret

(***************************************************************************)
(* C10: whatever one record's fetch yields, the run does not fail in the   *)
(* fetch stage: it never ends there with an uncaught exception.            *)
(***************************************************************************)
C10_FetchStageNeverFailsRun ==
    ~(pc = "crash" /\ \E i \in DOMAIN tasks : tasks[i].st = "raised")

(***************************************************************************)
(* C11: every report detail of the fetch stage's result, and every report  *)
(* file handed to the sink, is the body returned by the fetch task of a    *)
(* stub of the enumerated list: no detail is recorded for an id that is    *)
(* not among the stubs, and the empty object of a skipped record is never  *)
(* recorded as a detail.                                                   *)
(***************************************************************************)
C11_DetailsComeFromStubs ==
    /\ \A k \in DOMAIN battlelog_reports :
          /\ battlelog_reports[k] # EmptyObj
          /\ battlelog_reports[k].kind = "report"
          /\ \E p \in succeeded :
                /\ p \in DOMAIN created
                /\ created[p] = seen[p]
                /\ battlelog_reports[k] = Report(seen[p].gameReportId)
    /\ \A k \in DOMAIN files :
          files[k].path[1] = "reports" =>
              /\ files[k].content # EmptyObj
              /\ \E j \in DOMAIN battlelog_reports : files[k].content = battlelog_reports[j]
              /\ \E p \in DOMAIN seen : files[k].path = <<"reports", seen[p].gameReportId>>

\* A finished run in which a record was skipped and another one's report was
\* fetched and written.
C11_Witness ==
    /\ pc = "done"
    /\ lastReturn.ret = EmptyObj
    /\ battlelog_reports # <<>>
    /\ Len(battlelog_reports) < Len(seen)
    /\ \E k \in DOMAIN files : files[k].path[1] = "reports"

(***************************************************************************)
(* C12: when the first response to every record's request is a valid       *)
(* non-empty body, then, whatever the order in which the responses arrive, *)
(* the fetch stage ends and its result has exactly one entry per stub: N   *)
(* entries for N >= 1 stubs, the report of each stub's id.                 *)
(***************************************************************************)
C12_AllValidAllRecorded ==
    ~faulted =>
        /\ pc = "crash" => created = <<>>
        /\ \A i \in DOMAIN tasks : tasks[i].st \notin {"sleeping", "raised"}
        /\ pc = "batch" => Len(battlelog_reports) = Len(created)
        /\ pc \in {"sink", "done"} =>
              /\ Len(seen) >= 1
              /\ Len(battlelog_reports) = Len(seen)
              /\ \A p \in DOMAIN seen :
                    battlelog_reports[p] = Report(seen[p].gameReportId)

\* 25 stubs in two batches, every request answered by a valid body at once:
\* 25 entries.
C12_Witness ==
    /\ pc = "done"
    /\ ~faulted
    /\ Len(seen) = BatchSize + 5
    /\ Len(battlelog_reports) = BatchSize + 5
    /\ Len(report_list) = 2

(***************************************************************************)
(* C13: battlelogApiFetch retries without limit on 504.  After any number  *)
(* of consecutive 504 answers the call has neither returned nor ended the  *)
(* process, it sends the same request again (main has not moved), and as   *)
(* soon as an answer that is neither 504 nor 403 nor a transport error     *)
(* arrives it returns the decoded body ({} when the body does not decode). *)
(***************************************************************************)
C13_RetriesOn504UntilAnswered ==
    /\ lastApi.class = "504" =>
          /\ n504 >= 1
          /\ apiReturn = NoRet
          /\ exitcode = -1
          /\ pc \in {"oneshot", "first", "more"}
          /\ files = <<>>
          /\ ENABLED (OneShotFetch \/ FirstPage \/ MorePage)
    /\ n504 >= 1 => lastApi.class = "504"
    /\ lastApi.class = "other" =>
          /\ n504 = 0
          /\ apiReturn = (IF lastApi.text = Garbage THEN EmptyObj ELSE lastApi.text)

\* The call is still pending after Max504 consecutive 504 answers.
C13_Witness ==
    /\ n504 = Max504
    /\ lastApi.class = "504"
    /\ apiReturn = NoRet
    /\ pc = "more"

(***************************************************************************)
(* C14: when the first report-list page comes without the data field, the  *)
(* run ends at once with the reports-inaccessible diagnostic and exit code *)
(* 1: the page is not requested again, no further page is requested, no    *)
(* fetch task is created and nothing is written.                           *)
(***************************************************************************)
C14_HiddenReportsFatal ==
    /\ ( /\ meta = NumOneShot
         /\ pc # "first"
         /\ cursor = 0
         /\ lastApi.class = "other"
         /\ json_loads(lastApi.text).kind \in {"nodata", "empty", "null"} ) => firstLacksData
    /\ firstLacksData =>
          /\ pc = "exit1"
          /\ exitcode = 1
          /\ printed = << "hidden" >>
          /\ meta = NumOneShot
          /\ lastApi.class = "other"
          /\ cursor = 0
          /\ seen = <<>>
          /\ report_list = <<>>
          /\ emptyRun = 0
          /\ tasks = <<>>
          /\ created = <<>>
          /\ battlelog_reports = <<>>
          /\ files = <<>>
          /\ ~ENABLED Next

(***************************************************************************)
(* C15: the value written as report_list.json is the full, flat sequence   *)
(* of stubs exactly as enumeration produced it: the same stubs, in the     *)
(* same order, with the same structure, unchanged by the partition.        *)
(***************************************************************************)
C15_StubListFileIsFlat ==
    \A k \in DOMAIN files :
        files[k].path = << "report_list.json" >> => files[k].content = seen

(***************************************************************************)
(* C16: a connection error has no effect on the attempt count: a record    *)
(* that has met any number of connection errors is still allowed 6 empty-  *)
(* body attempts, so it is skipped only on its 6th empty-body response.    *)
(***************************************************************************)
C16_ConnectionErrorsNotCounted ==
    (lastReturn.ret = EmptyObj /\ lastReturn.nBlock = 0) => lastReturn.nEmpty = AttemptCap

(***************************************************************************)
(* C17: enumeration is sequential and driven by the cursor.  Every 'more'  *)
(* request carries the createdAt of the last stub of the list accumulated  *)
(* so far (after an empty page, the same cursor again); the requests are   *)
(* made one at a time, before any fetch task exists; every non-empty page  *)
(* is appended whole and in the order received, with no sorting and no     *)
(* filtering of duplicates.                                                *)
(***************************************************************************)
C17_CursorDrivenEnumeration ==
    [][ /\ cursor' # cursor =>
              /\ pc = "more"
              /\ report_list # <<>>
              /\ cursor' = report_list[Len(report_list)].createdAt
              /\ tasks = <<>> /\ tasks' = <<>> /\ created' = <<>>
        /\ (pc = "more" /\ lastApi' # lastApi) =>
              cursor' = report_list[Len(report_list)].createdAt
        /\ (pc = "more" /\ apiReturn'.kind = "page") =>
              /\ seen' = seen \o apiReturn'.gameReports
              /\ report_list' \in {report_list, seen'}
              /\ (pc' = "more" => report_list' = seen')
              /\ (apiReturn'.gameReports = <<>> /\ pc' = "more" =>
                     cursor' = report_list'[Len(report_list')].createdAt)
        /\ (pc \in {"first", "more"} /\ pc' \in {"more", "split"}) =>
              report_list' = seen'
      ]_vars

\* A page repeating a stub has been appended as it came, and the last request
\* carried the cursor of the last stub twice over empty pages.
C17_Witness ==
    /\ pc = "more"
    /\ noDataReturned = 2
    /\ Len(report_list) = 2
    /\ report_list[1].gameReportId = report_list[2].gameReportId
    /\ cursor = report_list[2].createdAt
    /\ apiReturn = Page(<<>>)

(***************************************************************************)
(* C18: no fetch task writes to the shared result: a task only returns its *)
(* value.  main alone appends, and appends the non-empty results of a      *)
(* batch, in task order, only after every task of the batch has ended, so  *)
(* that, as long as the run goes on, no fetched report is lost,            *)
(* overwritten or recorded twice: the result is the reports of the ended   *)
(* batches, each once, in order.                                           *)
(***************************************************************************)
C18_OnlyMainAppendsAfterGather ==
    /\ [](pc # "crash" =>
            battlelog_reports =
               SuccessReports(IF pc = "gather" THEN Len(created) - Len(tasks) ELSE Len(created)))
    /\ [][ /\ tasks' # tasks /\ tasks' # <<>> => battlelog_reports' = battlelog_reports
           /\ battlelog_reports' # battlelog_reports =>
                 /\ pc = "gather"
                 /\ \A i \in DOMAIN tasks : tasks[i].st = "returned"
                 /\ tasks' = <<>>
                 /\ battlelog_reports' =
                        battlelog_reports \o
                            SelectSeq([i \in DOMAIN tasks |-> tasks[i].ret],
                                      LAMBDA v : v.kind = "report")
         ]_vars

\* In the second batch a task has returned its report, and the result still
\* holds the reports of the first batch only.
C18_Witness ==
    /\ pc = "gather"
    /\ chunk = 2
    /\ \E i \in DOMAIN tasks : tasks[i].st = "returned" /\ tasks[i].ret.kind = "report"
    /\ \E i \in DOMAIN tasks : tasks[i].st = "waiting"
    /\ Len(battlelog_reports) = Len(report_list[1])

(***************************************************************************)
(* C19: a fetch task ends in one of two ways only: it returns the body, on *)
(* a 200 response with a non-empty, non-null body, at any attempt number;  *)
(* or it returns the empty object, on a 200 response with an empty body    *)
(* that answers at least its 6th request overall, the attempt counter      *)
(* counting every request.  Nothing else ends it.                          *)
(***************************************************************************)
C19_TaskEndsInTwoWays ==
    lastReturn # NoReturn =>
        \/ /\ lastReturn.st = "returned"
           /\ lastReturn.last = "ok"
           /\ lastReturn.ret = Report(lastReturn.url)
        \/ /\ lastReturn.st = "returned"
           /\ lastReturn.last = "empty"
           /\ lastReturn.ret = EmptyObj
           /\ lastReturn.attempt = lastReturn.reqs
           /\ lastReturn.reqs >= AttemptCap

(***************************************************************************)
(* C20: the sink starts only after the seven one-shot fetches, the         *)
(* enumeration and every fetch task of every batch have finished; a run    *)
(* that completes has written each fetched report exactly once; a run that *)
(* ended fatally before the sink (a 403, an inaccessible report list, an   *)
(* uncaught exception) has written no file.                                *)
(***************************************************************************)
C20_SinkAfterEverything ==
    LET ReportWrites == SelectSeq(files, LAMBDA f : f.path[1] = "reports")
        Expected == [k \in DOMAIN battlelog_reports |->
                        File(<< "reports", battlelog_reports[k].id >>, battlelog_reports[k])]
    IN  /\ (pc = "sink" \/ files # <<>>) =>
              /\ pc \in {"sink", "done", "exit1"}
              /\ meta = NumOneShot
              /\ emptyRun = EmptyThreshold + 1
              /\ Flatten(report_list) = seen
              /\ chunk = Len(report_list) + 1
              /\ created = seen
              /\ tasks = <<>>
              /\ Len(battlelog_reports) = Cardinality(succeeded)
              /\ Len(ReportWrites) <= Len(Expected)
              /\ ReportWrites = SubSeq(Expected, 1, Len(ReportWrites))
        /\ pc = "done" =>
              /\ ReportWrites = Expected
              /\ Len(files) = NumOneShot + 1 + Len(battlelog_reports)
        /\ (got403 \/ firstLacksData \/ pc = "crash") => files = <<>>
        /\ (pc = "exit1" /\ files # <<>>) => printed = << "disk" >>

\* A completed run that fetched two reports: two report files after the
\* eight other files.
C20_Witness ==
    /\ pc = "done"
    /\ Len(battlelog_reports) = 2
    /\ Len(files) = NumOneShot + 3
    /\ files[NumOneShot + 3].content = battlelog_reports[2]

====
